---- MODULE Spec2Model ----
(***************************************************************************)
(* NewAPIGateway (src/resources/api_gateway/api_gateway.go) as a state     *)
(* machine: one action per creation call of the function, in program       *)
(* order.  Every creation call is a call into the Pulumi SDK, which may    *)
(* return an error; the function then returns (nil, err) at once.          *)
(*                                                                         *)
(* Go strings are sequences of tokens, concatenated with \o, so that the   *)
(* resource names and memo keys the code builds by string concatenation    *)
(* collide exactly when the Go strings do.                                 *)
(***************************************************************************)
EXTENDS Integers, Sequences, FiniteSets, TLC

VARIABLES
    config,        \* *APIGatewayConfig, the input (never assigned by the code)
    prev,          \* the endpoint list and trigger value of the run before
    pc,            \* position in NewAPIGateway
    decls,         \* the declarations registered with ctx, in the order issued
    tags,          \* local tags
    restAPI,       \* local restAPI     (index into decls, 0 = not yet / nil)
    authorizer,    \* local authorizer  (0 = nil)
    resources,     \* local resources: memo fullPath -> *apigateway.Resource
    idx,           \* position of the range loop over config.Endpoints
    parts,         \* what is left of the range over splitPath(path)
    parentPath,    \* local parentPath
    resource,      \* local resource   (0 = restAPI.RootResourceId)
    method,        \* local method
    deployment,    \* local deployment
    stage,         \* local stage
    apiKey,        \* local apiKey      (0 = nil)
    usagePlan,     \* local usagePlan   (0 = nil)
    customDomain,  \* local customDomain (0 = nil)
    comp,          \* the component under construction
    ret,           \* "running", or what the call returned: "comp", "nil"; "panic"
    err            \* the returned error

vars == <<config, prev, pc, decls, tags, restAPI, authorizer, resources, idx, parts,
          parentPath, resource, method, deployment, stage, apiKey, usagePlan,
          customDomain, comp, ret, err>>

locals == <<tags, restAPI, authorizer, resources, idx, parts, parentPath,
            resource, method, deployment, stage, apiKey, usagePlan, customDomain>>

(***************************************************************************)
(* Bounds and input alphabets                                              *)
(***************************************************************************)
MaxEndpoints == 2

Name == <<"api">>

Slash == <<"/">>
Dash == <<"-">>

\* endpoint paths, as token sequences: "/a", "/a/b", "/a/b/", "//a//b", "/", ""
PathA == <<"/", "a">>
PathAB == <<"/", "a", "/", "b">>
PathABSlash == <<"/", "a", "/", "b", "/">>
PathDoubled == <<"/", "/", "a", "/", "/", "b">>
PathRoot == <<"/">>
PathEmpty == <<>>

Paths == {PathA, PathAB, PathABSlash, PathDoubled, PathRoot, PathEmpty}

\* "/a-options" and the README example's "/users"
PathAOptions == <<"/", "a", "-", "options">>
PathUsers == <<"/", "users">>

Methods == {"GET", "POST"}

Authorizations == {"NONE", "AWS_IAM", "CUSTOM"}

TagKeys == {"Environment", "ManagedBy", "Team"}

TagValues == {"z", "Pulumi"}

Environments == {"dev", "prod"}

NoTags == [k \in {} |-> "z"]

\* every map[string]string over TagKeys / TagValues
TagMaps == UNION {[D -> TagValues] : D \in SUBSET TagKeys}

\* *lambda.Function values: the function pointed to and the pointer's value,
\* the address the function object has in the run
Handler == [fn |-> "handler", addr |-> "0xc000010000"]
GetUsers == [fn |-> "getUsersFunction", addr |-> "0xc000010000"]
CreateUser == [fn |-> "createUserFunction", addr |-> "0xc000010400"]
Addresses == {"0xc000010000", "0xc000010400"}

NoPlan == [present |-> FALSE, hasQuota |-> FALSE, Limit |-> 0, Period |-> "",
           hasThrottle |-> FALSE, BurstLimit |-> 0, RateLimit |-> 0]

\* *UsagePlanConfig values: the README example's plan, and plans whose Quota
\* or Throttle pointer is nil
ExamplePlan ==
    [present |-> TRUE, hasQuota |-> TRUE, Limit |-> 1000, Period |-> "DAY",
     hasThrottle |-> TRUE, BurstLimit |-> 10, RateLimit |-> 5]

UsagePlans ==
    { NoPlan,
      ExamplePlan,
      [present |-> TRUE, hasQuota |-> FALSE, Limit |-> 0, Period |-> "",
       hasThrottle |-> TRUE, BurstLimit |-> 10, RateLimit |-> 5],
      [present |-> TRUE, hasQuota |-> TRUE, Limit |-> 1000, Period |-> "DAY",
       hasThrottle |-> FALSE, BurstLimit |-> 0, RateLimit |-> 0] }

EndpointConfig(P, M, A, K) ==
    [Path : P, Method : M, LambdaFunc : {Handler}, Authorization : A,
     ApiKeyRequired : K]

SeqsUpTo(S, n) == UNION {[1..k -> S] : k \in 0..n}

APIGatewayConfig(E, cors, auth, key, plans, dom, T, env) ==
    [Endpoints : E, EnableCORS : cors, AuthorizerFunc : auth,
     ApiKeyRequired : key, UsagePlanLimit : plans, CustomDomain : dom,
     Tags : T, Environment : env, StageName : {"prod"}]

\* compositions that vary the endpoint paths
PathConfigs ==
    APIGatewayConfig(
        SeqsUpTo(EndpointConfig(Paths, Methods, {"NONE"}, {FALSE}), MaxEndpoints),
        BOOLEAN, {FALSE}, {FALSE}, {NoPlan}, {FALSE}, {NoTags}, {"dev"})

\* compositions that vary the optional features
FeatureConfigs ==
    APIGatewayConfig(
        SeqsUpTo(EndpointConfig({PathA}, Methods, Authorizations, {FALSE}),
                 MaxEndpoints),
        BOOLEAN, BOOLEAN, BOOLEAN, UsagePlans, BOOLEAN, {NoTags}, {"dev"})

\* compositions that vary the tags
TagConfigs ==
    APIGatewayConfig(
        SeqsUpTo(EndpointConfig({PathA}, {"POST"}, {"NONE"}, {TRUE}), 1),
        {FALSE}, {FALSE}, {FALSE}, {NoPlan}, {FALSE}, TagMaps, Environments)

\* compositions whose paths make the names built from them meet
NameConfigs ==
    APIGatewayConfig(
        SeqsUpTo(EndpointConfig({PathA, PathAOptions}, {"GET"}, {"NONE"}, {FALSE}),
                 MaxEndpoints),
        BOOLEAN, {FALSE}, {FALSE}, {NoPlan}, {FALSE}, {NoTags}, {"dev"})

\* the README example's endpoints, usage plan and tags, with each setting of
\* the flags the example leaves out or could leave out
ExampleEndpoints ==
    << [Path |-> PathUsers, Method |-> "GET", LambdaFunc |-> GetUsers,
        Authorization |-> "NONE", ApiKeyRequired |-> FALSE],
       [Path |-> PathUsers, Method |-> "POST", LambdaFunc |-> CreateUser,
        Authorization |-> "NONE", ApiKeyRequired |-> TRUE] >>

ExampleConfigs ==
    APIGatewayConfig({ExampleEndpoints}, BOOLEAN, {FALSE}, BOOLEAN,
                     {ExamplePlan}, BOOLEAN, {NoTags}, {"production"})

Configs ==
    PathConfigs \cup FeatureConfigs \cup TagConfigs \cup NameConfigs
        \cup ExampleConfigs

\* the first of two runs: one handler, at one address
FirstRunConfigs ==
    APIGatewayConfig(
        SeqsUpTo(EndpointConfig({PathA}, {"GET"}, {"NONE"}, {FALSE}), MaxEndpoints),
        {FALSE}, {FALSE}, {FALSE}, {NoPlan}, {FALSE}, {NoTags}, {"dev"})

\* the second run: the same handler, wherever the run has put it
RerunEndpoints ==
    [Path : {PathA, PathAB}, Method : Methods,
     LambdaFunc : [fn : {"handler"}, addr : Addresses],
     Authorization : {"NONE", "CUSTOM"}, ApiKeyRequired : {FALSE}]

RerunConfigs ==
    APIGatewayConfig(SeqsUpTo(RerunEndpoints, MaxEndpoints),
                     {FALSE}, {FALSE}, {FALSE}, {NoPlan}, {FALSE}, {NoTags}, {"dev"})
    \cup
    APIGatewayConfig(SeqsUpTo(RerunEndpoints, MaxEndpoints),
                     {TRUE}, {TRUE}, {TRUE}, {ExamplePlan}, {TRUE}, {NoTags}, {"dev"})

(***************************************************************************)
(* Helpers of the function                                                 *)
(***************************************************************************)
NilErr == [msg |-> "nil", detail |-> <<>>]

\* fmt.Errorf("...: %w", err)
Errorf(msg, detail) == [msg |-> msg, detail |-> detail]

\* comp := &APIGateway{}
ZeroComp ==
    [RestAPI |-> 0, Deployment |-> 0, Stage |-> 0, APIKey |-> 0,
     UsagePlan |-> 0, CustomDomain |-> 0,
     BaseURL |-> [set |-> FALSE, api |-> 0, region |-> "", stage |-> ""],
     CustomDomainURL |-> [set |-> FALSE, domain |-> 0]]

\* one registered declaration; parent is the component (parentOpts), refs the
\* declarations whose outputs the arguments use.  ep (the index of the
\* endpoint whose iteration issued it, 0 outside the loop) and a tree node's
\* fullPath (its memo key) are bookkeeping, not arguments of the call
Decl(kind, name, parent, refs, ep, args) ==
    [kind |-> kind, name |-> name, parent |-> parent, refs |-> refs,
     ep |-> ep, args |-> args]

\* the identifier the next declaration gets
NewID == Len(decls) + 1

\* splitPath: "return []string{path} // Simplified for brevity"
splitPath(path) == <<path>>

NoPrev == [set |-> FALSE, Endpoints |-> <<>>, trigger |-> <<>>]

\* %v of a bool
FormatBool(b) == IF b THEN "true" ELSE "false"

\* %v of an EndpointConfig: the fields in order, a space between them; the
\* *lambda.Function prints as its address, the two nil maps as map[]
FormatEndpoint(e) ==
    <<"{">> \o e.Path
        \o <<" ", e.Method, " ", e.LambdaFunc.addr, " ", e.Authorization, " ",
              FormatBool(e.ApiKeyRequired), " ", "map[]", " ", "map[]", "}">>

RECURSIVE FormatElements(_)
FormatElements(E) ==
    IF E = <<>> THEN <<>>
    ELSE IF Len(E) = 1 THEN FormatEndpoint(E[1])
    ELSE FormatEndpoint(E[1]) \o <<" ">> \o FormatElements(Tail(E))

\* fmt.Sprintf("%v", config.Endpoints)
Sprintf(E) == <<"[">> \o FormatElements(E) \o <<"]">>

\* mutant of MapSet: a key already in the map keeps its value
MapSetKeepsExisting(t, k, v) ==
    [x \in DOMAIN t \cup {k} |-> IF x \in DOMAIN t THEN t[x] ELSE v]

\* tags[k] = v
MapSet(t, k, v) == [x \in DOMAIN t \cup {k} |-> IF x = k THEN v ELSE t[x]]

RECURSIVE RangeAssign(_, _, _)
\* for k, v := range config.Tags { tags[k] = v }
RangeAssign(t, m, keys) ==
    IF keys = {} THEN t
    ELSE LET k == CHOOSE x \in keys : TRUE
         IN  RangeAssign(MapSet(t, k, m[k]), m, keys \ {k})

\* "Merge default tags with provided tags"
MergeTags(cfg) ==
    RangeAssign([k \in {"Environment", "ManagedBy"} |->
                    IF k = "Environment" THEN cfg.Environment ELSE "Pulumi"],
                cfg.Tags, DOMAIN cfg.Tags)

\* mutant of BindAuthorizer: the authorization mode is not tested
BindAuthorizerAlways(auth, endpoint) == auth # 0

\* authorizer != nil && endpoint.Authorization == "CUSTOM"
BindAuthorizer(auth, endpoint) == auth # 0 /\ endpoint.Authorization = "CUSTOM"

\* mutant of EndpointsLeft: the loop stops one endpoint early
EndpointsLeftButLast(cfg, i) == i < Len(cfg.Endpoints)

\* the range loop over config.Endpoints has an endpoint left
EndpointsLeft(cfg, i) == i <= Len(cfg.Endpoints)

\* mutant of AddCORS: the flag is not tested
AddCORSAlways(cfg) == TRUE

\* if config.EnableCORS
AddCORS(cfg) == cfg.EnableCORS

\* mutant of KeyAndPlan: the usage plan alone is enough
KeyOrPlan(cfg) == cfg.UsagePlanLimit.present

\* config.ApiKeyRequired && config.UsagePlanLimit != nil
KeyAndPlan(cfg) == cfg.ApiKeyRequired /\ cfg.UsagePlanLimit.present

\* the outputs of a resource node that an argument uses
ResourceRefs(r) == IF r = 0 THEN {} ELSE {r}

Endpoint == config.Endpoints[idx]

\* mutant of Fail: the error is noted and the failed call is made again
FailAndRetry(msg, detail) ==
    /\ err' = Errorf(msg, detail)
    /\ UNCHANGED <<config, prev, pc, decls, comp, ret, locals>>

\* return nil, fmt.Errorf(...)
Fail(msg, detail) ==
    /\ err' = Errorf(msg, detail)
    /\ ret' = "nil"
    /\ pc' = "done"
    /\ UNCHANGED <<config, prev, decls, comp, locals>>

(***************************************************************************)
(* Init: the state on entry to NewAPIGateway                               *)
(***************************************************************************)
Entry ==
    /\ pc = "register"
    /\ decls = <<>>
    /\ tags = NoTags
    /\ restAPI = 0
    /\ authorizer = 0
    /\ resources = [p \in {} |-> 0]
    /\ idx = 0
    /\ parts = <<>>
    /\ parentPath = <<>>
    /\ resource = 0
    /\ method = 0
    /\ deployment = 0
    /\ stage = 0
    /\ apiKey = 0
    /\ usagePlan = 0
    /\ customDomain = 0
    /\ comp = ZeroComp
    /\ ret = "running"
    /\ err = NilErr

Init ==
    /\ config \in Configs
    /\ prev = NoPrev
    /\ Entry

\* the first of two runs of the program
InitRerun ==
    /\ config \in FirstRunConfigs
    /\ prev = NoPrev
    /\ Entry

(***************************************************************************)
(* Actions: a creation call and the code up to the next one                *)
(***************************************************************************)
\* ctx.RegisterComponentResource, then the tag merge
RegisterComponent ==
    /\ pc = "register"
    /\ \E ok \in BOOLEAN :
        IF ok
        THEN /\ decls' = Append(decls, Decl("Component", Name, 0, {}, 0,
                                            [type |-> "custom:aws:APIGateway"]))
             /\ tags' = MergeTags(config)
             /\ pc' = "restapi"
             /\ UNCHANGED <<config, prev, restAPI, authorizer, resources, idx, parts,
                            parentPath, resource, method, deployment, stage,
                            apiKey, usagePlan, customDomain, comp, ret, err>>
        ELSE Fail("failed to register component", <<>>)

\* apigateway.NewRestApi
CreateRestApi ==
    /\ pc = "restapi"
    /\ \E ok \in BOOLEAN :
        IF ok
        THEN /\ decls' = Append(decls, Decl("RestApi", Name, 1, {}, 0,
                                            [Types |-> "EDGE", Tags |-> tags]))
             /\ restAPI' = NewID
             /\ pc' = "authorizer"
             /\ UNCHANGED <<config, prev, tags, authorizer, resources, idx, parts,
                            parentPath, resource, method, deployment, stage,
                            apiKey, usagePlan, customDomain, comp, ret, err>>
        ELSE Fail("failed to create REST API", <<>>)

\* if config.AuthorizerFunc != nil { apigateway.NewAuthorizer }, then the
\* memo is made and the range loop begins
CreateAuthorizer ==
    /\ pc = "authorizer"
    /\ IF config.AuthorizerFunc
       THEN \E ok \in BOOLEAN :
            IF ok
            THEN /\ decls' = Append(decls,
                        Decl("Authorizer", Name \o Dash \o <<"authorizer">>, 1,
                             {restAPI}, 0,
                             [Type |-> "TOKEN",
                              IdentitySource |-> "method.request.header.Authorization",
                              AuthorizerResultTtlInSeconds |-> 300]))
                 /\ authorizer' = NewID
                 /\ idx' = 1
                 /\ pc' = "loop"
                 /\ UNCHANGED <<config, prev, tags, restAPI, resources, parts,
                                parentPath, resource, method, deployment, stage,
                                apiKey, usagePlan, customDomain, comp, ret, err>>
            ELSE Fail("failed to create authorizer", <<>>)
       ELSE /\ idx' = 1
            /\ pc' = "loop"
            /\ UNCHANGED <<config, prev, decls, tags, restAPI, authorizer, resources,
                           parts, parentPath, resource, method, deployment,
                           stage, apiKey, usagePlan, customDomain, comp, ret, err>>

\* for _, endpoint := range config.Endpoints: the head of an iteration
NextEndpoint ==
    /\ pc = "loop"
    /\ IF EndpointsLeft(config, idx)
       THEN /\ parentPath' = Slash
            /\ resource' = 0
            /\ parts' = splitPath(Endpoint.Path)
            /\ pc' = IF splitPath(Endpoint.Path) = <<>> THEN "method" ELSE "walk"
       ELSE /\ pc' = "deployment"
            /\ UNCHANGED <<parentPath, resource, parts>>
    /\ UNCHANGED <<config, prev, decls, tags, restAPI, authorizer, resources, idx,
                   method, deployment, stage, apiKey, usagePlan, customDomain,
                   comp, ret, err>>

\* one iteration of: for _, pathPart := range splitPath(path)
WalkPath ==
    /\ pc = "walk"
    /\ LET pathPart == Head(parts)
           fullPath == parentPath \o pathPart
           after    == IF Tail(parts) = <<>> THEN "method" ELSE "walk"
       IN  IF pathPart = <<>>
           THEN /\ parts' = Tail(parts)
                /\ pc' = after
                /\ UNCHANGED <<config, prev, decls, tags, restAPI, authorizer,
                               resources, idx, parentPath, resource, method,
                               deployment, stage, apiKey, usagePlan,
                               customDomain, comp, ret, err>>
           ELSE IF fullPath \in DOMAIN resources
           THEN /\ resource' = resources[fullPath]
                /\ parentPath' = fullPath \o Slash
                /\ parts' = Tail(parts)
                /\ pc' = after
                /\ UNCHANGED <<config, prev, decls, tags, restAPI, authorizer,
                               resources, idx, method, deployment, stage,
                               apiKey, usagePlan, customDomain, comp, ret, err>>
           ELSE \E ok \in BOOLEAN :
                IF ok
                THEN /\ decls' = Append(decls,
                            Decl("Resource", Name \o Dash \o pathPart, 1,
                                 {restAPI} \cup ResourceRefs(resource), idx,
                                 [ParentId |-> resource, PathPart |-> pathPart,
                                  fullPath |-> fullPath]))
                     /\ resources' = (fullPath :> NewID) @@ resources
                     /\ resource' = NewID
                     /\ parentPath' = fullPath \o Slash
                     /\ parts' = Tail(parts)
                     /\ pc' = after
                     /\ UNCHANGED <<config, prev, tags, restAPI, authorizer, idx,
                                    method, deployment, stage, apiKey,
                                    usagePlan, customDomain, comp, ret, err>>
                ELSE Fail("failed to create resource for path", fullPath)

\* apigateway.NewMethod for the endpoint
CreateMethod ==
    /\ pc = "method"
    /\ \E ok \in BOOLEAN :
        IF ok
        THEN /\ decls' = Append(decls,
                    Decl("Method",
                         Name \o Dash \o <<Endpoint.Method>> \o Dash \o Endpoint.Path,
                         1,
                         {restAPI} \cup ResourceRefs(resource)
                            \cup (IF BindAuthorizer(authorizer, Endpoint)
                                  THEN {authorizer} ELSE {}),
                         idx,
                         [ResourceId |-> resource,
                          HttpMethod |-> Endpoint.Method,
                          Authorization |-> Endpoint.Authorization,
                          ApiKeyRequired |-> Endpoint.ApiKeyRequired,
                          AuthorizerId |-> IF BindAuthorizer(authorizer, Endpoint)
                                           THEN authorizer ELSE 0]))
             /\ method' = NewID
             /\ pc' = "integration"
             /\ UNCHANGED <<config, prev, tags, restAPI, authorizer, resources, idx,
                            parts, parentPath, resource, deployment, stage,
                            apiKey, usagePlan, customDomain, comp, ret, err>>
        ELSE Fail("failed to create method", <<>>)

\* apigateway.NewIntegration for the endpoint
CreateIntegration ==
    /\ pc = "integration"
    /\ \E ok \in BOOLEAN :
        IF ok
        THEN /\ decls' = Append(decls,
                    Decl("Integration",
                         Name \o Dash \o <<Endpoint.Method>> \o Dash \o Endpoint.Path
                            \o Dash \o <<"integration">>,
                         1,
                         {restAPI, method} \cup ResourceRefs(resource),
                         idx,
                         [ResourceId |-> resource,
                          HttpMethod |-> decls[method].args.HttpMethod,
                          IntegrationType |-> "AWS_PROXY",
                          Uri |-> Endpoint.LambdaFunc.fn]))
             /\ pc' = "permission"
             /\ UNCHANGED <<config, prev, locals, comp, ret, err>>
        ELSE Fail("failed to create integration", <<>>)

\* lambda.NewPermission for the endpoint; the CORS test follows it
CreatePermission ==
    /\ pc = "permission"
    /\ \E ok \in BOOLEAN :
        IF ok
        THEN /\ decls' = Append(decls,
                    Decl("Permission",
                         Name \o Dash \o <<Endpoint.Method>> \o Dash \o Endpoint.Path
                            \o Dash \o <<"permission">>,
                         1, {restAPI}, idx,
                         [Function |-> Endpoint.LambdaFunc.fn,
                          Action |-> "lambda:InvokeFunction",
                          SourceMethod |-> Endpoint.Method,
                          SourcePath |-> Endpoint.Path]))
             /\ IF AddCORS(config)
                THEN pc' = "options" /\ idx' = idx
                ELSE pc' = "loop" /\ idx' = idx + 1
             /\ UNCHANGED <<config, prev, tags, restAPI, authorizer, resources, parts,
                            parentPath, resource, method, deployment, stage,
                            apiKey, usagePlan, customDomain, comp, ret, err>>
        ELSE Fail("failed to create lambda permission", <<>>)

\* apigateway.NewMethod for the preflight
CreateOptionsMethod ==
    /\ pc = "options"
    /\ \E ok \in BOOLEAN :
        IF ok
        THEN /\ decls' = Append(decls,
                    Decl("Method",
                         Name \o Dash \o <<Endpoint.Method>> \o Dash \o Endpoint.Path
                            \o Dash \o <<"options">>,
                         1, {restAPI} \cup ResourceRefs(resource), idx,
                         [ResourceId |-> resource,
                          HttpMethod |-> "OPTIONS",
                          Authorization |-> "NONE",
                          ApiKeyRequired |-> FALSE,
                          AuthorizerId |-> 0]))
             /\ pc' = "optionsIntegration"
             /\ UNCHANGED <<config, prev, locals, comp, ret, err>>
        ELSE Fail("failed to create OPTIONS method", <<>>)

\* apigateway.NewIntegration for the preflight; the iteration ends
CreateOptionsIntegration ==
    /\ pc = "optionsIntegration"
    /\ \E ok \in BOOLEAN :
        IF ok
        THEN /\ decls' = Append(decls,
                    Decl("Integration",
                         Name \o Dash \o <<Endpoint.Method>> \o Dash \o Endpoint.Path
                            \o Dash \o <<"options">> \o Dash \o <<"integration">>,
                         1, {restAPI} \cup ResourceRefs(resource), idx,
                         [ResourceId |-> resource,
                          HttpMethod |-> "OPTIONS",
                          IntegrationType |-> "MOCK",
                          Uri |-> ""]))
             /\ idx' = idx + 1
             /\ pc' = "loop"
             /\ UNCHANGED <<config, prev, tags, restAPI, authorizer, resources, parts,
                            parentPath, resource, method, deployment, stage,
                            apiKey, usagePlan, customDomain, comp, ret, err>>
        ELSE Fail("failed to create OPTIONS integration", <<>>)

\* apigateway.NewDeployment
CreateDeployment ==
    /\ pc = "deployment"
    /\ \E ok \in BOOLEAN :
        IF ok
        THEN /\ decls' = Append(decls,
                    Decl("Deployment", Name \o Dash \o <<"deployment">>, 1,
                         {restAPI}, 0,
                         [redeployment |-> Sprintf(config.Endpoints)]))
             /\ deployment' = NewID
             /\ pc' = "stage"
             /\ UNCHANGED <<config, prev, tags, restAPI, authorizer, resources, idx,
                            parts, parentPath, resource, method, stage, apiKey,
                            usagePlan, customDomain, comp, ret, err>>
        ELSE Fail("failed to create deployment", <<>>)

\* apigateway.NewStage
CreateStage ==
    /\ pc = "stage"
    /\ \E ok \in BOOLEAN :
        IF ok
        THEN /\ decls' = Append(decls,
                    Decl("Stage", Name \o Dash \o <<"stage">>, 1,
                         {restAPI, deployment}, 0,
                         [Deployment |-> deployment,
                          StageName |-> config.StageName,
                          Tags |-> tags]))
             /\ stage' = NewID
             /\ pc' = "apikey"
             /\ UNCHANGED <<config, prev, tags, restAPI, authorizer, resources, idx,
                            parts, parentPath, resource, method, deployment,
                            apiKey, usagePlan, customDomain, comp, ret, err>>
        ELSE Fail("failed to create stage", <<>>)

\* if config.ApiKeyRequired && config.UsagePlanLimit != nil { NewApiKey ...
CreateApiKey ==
    /\ pc = "apikey"
    /\ IF KeyAndPlan(config)
       THEN \E ok \in BOOLEAN :
            IF ok
            THEN /\ decls' = Append(decls,
                        Decl("ApiKey", Name \o Dash \o <<"key">>, 1, {}, 0,
                             [Tags |-> tags]))
                 /\ apiKey' = NewID
                 /\ pc' = "usageplan"
                 /\ UNCHANGED <<config, prev, tags, restAPI, authorizer, resources,
                                idx, parts, parentPath, resource, method,
                                deployment, stage, usagePlan, customDomain,
                                comp, ret, err>>
            ELSE Fail("failed to create API key", <<>>)
       ELSE /\ pc' = "domain"
            /\ UNCHANGED <<config, prev, decls, locals, comp, ret, err>>

\* mutant of UsagePlanArgs: burst and rate change places
UsagePlanArgsSwapped(cfg, api, st, tg) ==
    [ApiId |-> api,
     Stage |-> st,
     QuotaLimit |-> cfg.UsagePlanLimit.Limit,
     QuotaPeriod |-> cfg.UsagePlanLimit.Period,
     BurstLimit |-> cfg.UsagePlanLimit.RateLimit,
     RateLimit |-> cfg.UsagePlanLimit.BurstLimit,
     Tags |-> tg]

\* &apigateway.UsagePlanArgs{ApiStages, Quota, Throttle, Tags}
UsagePlanArgs(cfg, api, st, tg) ==
    [ApiId |-> api,
     Stage |-> st,
     QuotaLimit |-> cfg.UsagePlanLimit.Limit,
     QuotaPeriod |-> cfg.UsagePlanLimit.Period,
     BurstLimit |-> cfg.UsagePlanLimit.BurstLimit,
     RateLimit |-> cfg.UsagePlanLimit.RateLimit,
     Tags |-> tg]

\* apigateway.NewUsagePlan; building its arguments dereferences
\* config.UsagePlanLimit.Quota and .Throttle, and a nil one panics
CreateUsagePlan ==
    /\ pc = "usageplan"
    /\ IF ~config.UsagePlanLimit.hasQuota \/ ~config.UsagePlanLimit.hasThrottle
       THEN /\ ret' = "panic"
            /\ pc' = "done"
            /\ UNCHANGED <<config, prev, decls, locals, comp, err>>
       ELSE \E ok \in BOOLEAN :
            IF ok
            THEN /\ decls' = Append(decls,
                        Decl("UsagePlan", Name \o Dash \o <<"usage-plan">>, 1,
                             {restAPI, stage}, 0,
                             UsagePlanArgs(config, restAPI, stage, tags)))
                 /\ usagePlan' = NewID
                 /\ pc' = "usageplankey"
                 /\ UNCHANGED <<config, prev, tags, restAPI, authorizer, resources,
                                idx, parts, parentPath, resource, method,
                                deployment, stage, apiKey, customDomain, comp,
                                ret, err>>
            ELSE Fail("failed to create usage plan", <<>>)

\* apigateway.NewUsagePlanKey
CreateUsagePlanKey ==
    /\ pc = "usageplankey"
    /\ \E ok \in BOOLEAN :
        IF ok
        THEN /\ decls' = Append(decls,
                    Decl("UsagePlanKey", Name \o Dash \o <<"usage-plan-key">>, 1,
                         {apiKey, usagePlan}, 0,
                         [KeyId |-> apiKey, KeyType |-> "API_KEY",
                          UsagePlanId |-> usagePlan]))
             /\ pc' = "domain"
             /\ UNCHANGED <<config, prev, locals, comp, ret, err>>
        ELSE Fail("failed to create usage plan key", <<>>)

\* if config.CustomDomain != nil { apigateway.NewDomainName ...
CreateDomainName ==
    /\ pc = "domain"
    /\ IF config.CustomDomain
       THEN \E ok \in BOOLEAN :
            IF ok
            THEN /\ decls' = Append(decls,
                        Decl("DomainName", Name \o Dash \o <<"domain">>, 1, {}, 0,
                             [SecurityPolicy |-> "TLS_1_2", Tags |-> tags]))
                 /\ customDomain' = NewID
                 /\ pc' = "mapping"
                 /\ UNCHANGED <<config, prev, tags, restAPI, authorizer, resources,
                                idx, parts, parentPath, resource, method,
                                deployment, stage, apiKey, usagePlan, comp,
                                ret, err>>
            ELSE Fail("failed to create custom domain", <<>>)
       ELSE /\ pc' = "store"
            /\ UNCHANGED <<config, prev, decls, locals, comp, ret, err>>

\* apigateway.NewBasePathMapping
CreateBasePathMapping ==
    /\ pc = "mapping"
    /\ \E ok \in BOOLEAN :
        IF ok
        THEN /\ decls' = Append(decls,
                    Decl("BasePathMapping", Name \o Dash \o <<"domain-mapping">>,
                         1, {restAPI, stage, customDomain}, 0,
                         [Stage |-> stage, DomainName |-> customDomain]))
             /\ pc' = "store"
             /\ UNCHANGED <<config, prev, locals, comp, ret, err>>
        ELSE Fail("failed to create base path mapping", <<>>)

\* ctx.Region()
Region == "ctx.Region()"

\* pulumi.Sprintf("https://%s.execute-api.%s.amazonaws.com/%s", ...)
BaseURLOf(api, stageName) ==
    [set |-> TRUE, api |-> api, region |-> Region, stage |-> stageName]

\* mutant of CustomDomainURLOf: the nil test is dropped
CustomDomainURLAlways(dom) == [set |-> TRUE, domain |-> dom]

\* if customDomain != nil { comp.CustomDomainURL = pulumi.Sprintf(...) }
CustomDomainURLOf(dom) ==
    IF dom # 0 THEN [set |-> TRUE, domain |-> dom] ELSE ZeroComp.CustomDomainURL

\* "Store resources and outputs", return comp, nil
Return ==
    /\ pc = "store"
    /\ comp' = [RestAPI |-> restAPI, Deployment |-> deployment,
                Stage |-> stage, APIKey |-> apiKey, UsagePlan |-> usagePlan,
                CustomDomain |-> customDomain,
                BaseURL |-> BaseURLOf(restAPI, decls[stage].args.StageName),
                CustomDomainURL |-> CustomDomainURLOf(customDomain)]
    /\ ret' = "comp"
    /\ pc' = "done"
    /\ UNCHANGED <<config, prev, decls, locals, err>>

Next ==
    \/ RegisterComponent
    \/ CreateRestApi
    \/ CreateAuthorizer
    \/ NextEndpoint
    \/ WalkPath
    \/ CreateMethod
    \/ CreateIntegration
    \/ CreatePermission
    \/ CreateOptionsMethod
    \/ CreateOptionsIntegration
    \/ CreateDeployment
    \/ CreateStage
    \/ CreateApiKey
    \/ CreateUsagePlan
    \/ CreateUsagePlanKey
    \/ CreateDomainName
    \/ CreateBasePathMapping
    \/ Return

Spec == Init /\ [][Next]_vars

\* the program is run again after a successful run, with the endpoint list it
\* is then given: NewAPIGateway starts afresh, and the trigger value of the
\* run before is what the engine holds for the deployment
Rerun ==
    /\ pc = "done"
    /\ ret = "comp"
    /\ ~prev.set
    /\ prev' = [set |-> TRUE, Endpoints |-> config.Endpoints,
                trigger |-> decls[deployment].args.redeployment]
    /\ config' \in RerunConfigs
    /\ pc' = "register"
    /\ decls' = <<>>
    /\ tags' = NoTags
    /\ restAPI' = 0
    /\ authorizer' = 0
    /\ resources' = [p \in {} |-> 0]
    /\ idx' = 0
    /\ parts' = <<>>
    /\ parentPath' = <<>>
    /\ resource' = 0
    /\ method' = 0
    /\ deployment' = 0
    /\ stage' = 0
    /\ apiKey' = 0
    /\ usagePlan' = 0
    /\ customDomain' = 0
    /\ comp' = ZeroComp
    /\ ret' = "running"
    /\ err' = NilErr

NextRerun == Next \/ Rerun

SpecRerun == InitRerun /\ [][NextRerun]_vars

(***************************************************************************)
(* Vocabulary of the properties                                            *)
(***************************************************************************)
\* the declarations of one resource type
Nodes(kind) == {n \in 1..Len(decls) : decls[n].kind = kind}

\* the method and integration declared for the endpoint itself
EndpointMethods == {n \in Nodes("Method") : decls[n].args.HttpMethod # "OPTIONS"}
EndpointIntegrations ==
    {n \in Nodes("Integration") : decls[n].args.IntegrationType = "AWS_PROXY"}

\* the preflight pair
OptionsMethods == {n \in Nodes("Method") : decls[n].args.HttpMethod = "OPTIONS"}
MockIntegrations ==
    {n \in Nodes("Integration") : decls[n].args.IntegrationType = "MOCK"}

\* the declarations issued while wiring endpoint e
Of(S, e) == {n \in S : decls[n].ep = e}

RECURSIVE SplitOn(_, _, _)
SplitOn(p, cur, acc) ==
    IF p = <<>>
    THEN IF cur = <<>> THEN acc ELSE Append(acc, cur)
    ELSE IF Head(p) = "/"
    THEN SplitOn(Tail(p), <<>>, IF cur = <<>> THEN acc ELSE Append(acc, cur))
    ELSE SplitOn(Tail(p), Append(cur, Head(p)), acc)

\* the ordered non-empty segments of a path string
Segments(p) == SplitOn(p, <<>>, <<>>)

\* every non-empty prefix of the segments of every endpoint path
CumulativePaths(E) ==
    UNION {{SubSeq(Segments(E[i].Path), 1, k) :
                k \in 1..Len(Segments(E[i].Path))} : i \in 1..Len(E)}

RECURSIVE NodePath(_)
\* where a tree node sits in the REST API: the segments from the root to it
NodePath(n) ==
    IF n = 0 THEN <<>>
    ELSE NodePath(decls[n].args.ParentId) \o Segments(decls[n].args.PathPart)

\* two endpoints of the list have the same (path, method) pair
HasDuplicate(E) ==
    \E i, j \in 1..Len(E) :
        i # j /\ E[i].Path = E[j].Path /\ E[i].Method = E[j].Method

\* a resource node proper: anything declared beyond the component itself
ResourceDeclared == \E n \in 1..Len(decls) : decls[n].kind # "Component"

RECURSIVE Reach(_)
\* what a declaration depends on, directly or transitively, through the outputs
\* it references and its parent
Reach(n) ==
    LET direct == decls[n].refs \cup
                  (IF decls[n].parent = 0 THEN {} ELSE {decls[n].parent})
    IN  direct \cup UNION {Reach(m) : m \in direct}

(***************************************************************************)
(* Properties                                                              *)
(***************************************************************************)
\* C1: a successful composition has exactly one tree node per distinct
\* cumulative path (every prefix of every endpoint path) and no tree node
\* elsewhere, so endpoints sharing a prefix share the intermediate node.
\* Stated for endpoint paths that have a segment; the bare root is C16's.
C1_OneNodePerCumulativePath ==
    (ret = "comp" /\ \A i \in 1..Len(config.Endpoints) :
                        Segments(config.Endpoints[i].Path) # <<>>) =>
        /\ \A c \in CumulativePaths(config.Endpoints) :
              Cardinality({n \in Nodes("Resource") : NodePath(n) = c}) = 1
        /\ \A n \in Nodes("Resource") :
              NodePath(n) \in CumulativePaths(config.Endpoints)

\* C2: endpoint paths with the same segments a, b (/a/b/, /a/b, //a//b) have
\* their methods attached to the same leaf node.
C2_SameSegmentsSameLeaf ==
    \A m1, m2 \in EndpointMethods :
        /\ Segments(config.Endpoints[decls[m1].ep].Path) # <<>>
        /\ Segments(config.Endpoints[decls[m1].ep].Path)
              = Segments(config.Endpoints[decls[m2].ep].Path)
        => decls[m1].args.ResourceId = decls[m2].args.ResourceId

\* C3: for a composition whose endpoint list repeats a (path, method) pair no
\* resource node is ever declared, and the call does not return a component.
C3_DuplicatesRejected ==
    HasDuplicate(config.Endpoints) => (~ResourceDeclared /\ ret # "comp")

\* C4: a successful composition has exactly one API key, one usage plan and
\* one usage-plan key when ApiKeyRequired and the usage-plan config are both
\* present, and none of the three otherwise.
C4_KeyIffBoth ==
    ret = "comp" =>
        LET n == IF config.ApiKeyRequired /\ config.UsagePlanLimit.present
                 THEN 1 ELSE 0
        IN  /\ Cardinality(Nodes("ApiKey")) = n
            /\ Cardinality(Nodes("UsagePlan")) = n
            /\ Cardinality(Nodes("UsagePlanKey")) = n

C4_Witness ==
    /\ ret = "comp"
    /\ config.ApiKeyRequired /\ config.UsagePlanLimit.present
    /\ Nodes("ApiKey") # {} /\ Nodes("UsagePlanKey") # {}

\* C5: for a composition with exactly one of ApiKeyRequired and the
\* usage-plan config no resource node is ever declared, and the call does not
\* return a component.
C5_HalfPairRejected ==
    (config.ApiKeyRequired # config.UsagePlanLimit.present)
        => (~ResourceDeclared /\ ret # "comp")

\* C6: the deployment depends, directly or transitively through declared
\* edges, on every method and every integration declared.
C6_DeploymentDependsOnWiring ==
    \A d \in Nodes("Deployment") :
        (Nodes("Method") \cup Nodes("Integration")) \subseteq Reach(d)

\* C7: when the deployment is declared, every endpoint's method, integration,
\* permission and (with CORS) preflight pair has been declared before it and
\* no such declaration follows it; the stage follows the deployment it
\* references.
C7_DeploymentAfterWiring ==
    /\ \A d \in Nodes("Deployment") :
          /\ \A n \in Nodes("Method") \cup Nodes("Integration")
                        \cup Nodes("Permission") \cup Nodes("Resource") : n < d
          /\ \A e \in 1..Len(config.Endpoints) :
                /\ Of(EndpointMethods, e) # {}
                /\ Of(EndpointIntegrations, e) # {}
                /\ Of(Nodes("Permission"), e) # {}
                /\ config.EnableCORS =>
                      Of(OptionsMethods, e) # {} /\ Of(MockIntegrations, e) # {}
    /\ \A s \in Nodes("Stage") :
          /\ decls[s].args.Deployment \in Nodes("Deployment")
          /\ decls[s].args.Deployment < s

C7_Witness ==
    /\ Nodes("Stage") # {}
    /\ Len(config.Endpoints) >= 2
    /\ config.EnableCORS

\* C8: a successful composition with CORS has, for each endpoint, exactly one
\* OPTIONS method (authorization NONE, no API key) and one MOCK integration,
\* both on the leaf of that endpoint's own method, N of each in all; without
\* CORS it has none.
C8_OptionsPairPerEndpoint ==
    ret = "comp" =>
        IF config.EnableCORS
        THEN /\ Cardinality(OptionsMethods) = Len(config.Endpoints)
             /\ Cardinality(MockIntegrations) = Len(config.Endpoints)
             /\ \A e \in 1..Len(config.Endpoints) :
                   /\ Cardinality(Of(OptionsMethods, e)) = 1
                   /\ Cardinality(Of(MockIntegrations, e)) = 1
                   /\ \A o \in Of(OptionsMethods, e) \cup Of(MockIntegrations, e) :
                        \A m \in Of(EndpointMethods, e) :
                            decls[o].args.ResourceId = decls[m].args.ResourceId
                   /\ \A o \in Of(OptionsMethods, e) :
                        /\ decls[o].args.Authorization = "NONE"
                        /\ ~decls[o].args.ApiKeyRequired
        ELSE OptionsMethods = {} /\ MockIntegrations = {}

\* two endpoints on one leaf, each with its own preflight pair
C8_Witness ==
    /\ ret = "comp"
    /\ config.EnableCORS
    /\ \E m1, m2 \in EndpointMethods :
          /\ m1 # m2
          /\ decls[m1].args.ResourceId = decls[m2].args.ResourceId
    /\ Cardinality(OptionsMethods) = 2

\* C9: an endpoint's method is bound to the authorizer iff its mode is CUSTOM
\* and an authorizer reference was supplied; when bound, it is bound to the
\* one authorizer node.
C9_BoundIffCustom ==
    \A m \in EndpointMethods :
        LET e == config.Endpoints[decls[m].ep]
        IN  /\ (decls[m].args.AuthorizerId # 0)
                  <=> (e.Authorization = "CUSTOM" /\ config.AuthorizerFunc)
            /\ decls[m].args.AuthorizerId # 0
                  => Nodes("Authorizer") = {decls[m].args.AuthorizerId}

\* a bound CUSTOM method next to an unbound NONE/AWS_IAM method, with an
\* authorizer
C9_Witness ==
    /\ ret = "comp"
    /\ Nodes("Authorizer") # {}
    /\ \E m1, m2 \in EndpointMethods :
          /\ decls[m1].args.AuthorizerId # 0
          /\ decls[m2].args.AuthorizerId = 0
          /\ decls[m2].args.Authorization # "CUSTOM"

\* C10: once merged, the tag set has the keys Environment, ManagedBy and the
\* override keys; an override key has its override value, a default key not
\* overridden its default; the step that merges does not fail, and no step
\* changes the override map.
C10_TagMerge ==
    /\ [](decls # <<>> =>
            /\ DOMAIN tags = {"Environment", "ManagedBy"} \cup DOMAIN config.Tags
            /\ \A k \in DOMAIN config.Tags : tags[k] = config.Tags[k]
            /\ "Environment" \notin DOMAIN config.Tags
                  => tags["Environment"] = config.Environment
            /\ "ManagedBy" \notin DOMAIN config.Tags
                  => tags["ManagedBy"] = "Pulumi")
    /\ [][/\ config' = config
          /\ (decls = <<>> /\ decls' # <<>>) => ret' = "running"]_vars

\* an override of Environment next to a key of its own, merged
C10_Witness ==
    /\ decls # <<>>
    /\ DOMAIN config.Tags = {"Environment", "Team"}
    /\ config.Tags["Environment"] # config.Environment
    /\ tags["Environment"] = config.Tags["Environment"]

\* C12: a successful composition returns a base URL built from the REST API's
\* identifier, the region and the stage name; its custom-domain URL is set
\* iff a custom domain was declared, its API key non-nil iff an API key was
\* declared.
C12_Outputs ==
    ret = "comp" =>
        /\ comp.BaseURL.set
        /\ Nodes("RestApi") = {comp.BaseURL.api}
        /\ comp.BaseURL.region = Region
        /\ comp.BaseURL.stage = config.StageName
        /\ comp.CustomDomainURL.set <=> Nodes("DomainName") # {}
        /\ comp.CustomDomainURL.set =>
              Nodes("DomainName") = {comp.CustomDomainURL.domain}
        /\ comp.APIKey # 0 <=> Nodes("ApiKey") # {}
        /\ comp.APIKey # 0 => Nodes("ApiKey") = {comp.APIKey}

C12_Witness ==
    /\ ret = "comp"
    /\ comp.CustomDomainURL.set
    /\ comp.APIKey # 0

\* C13: a failed creation call ends the run at once: the call returns nil
\* with a non-nil error exactly when an error arose, the failing step declares
\* nothing, and no step follows the return, so nothing is declared after the
\* failure and the failed call is not made again.
C13_FailFast ==
    /\ [](err # NilErr <=> ret = "nil")
    /\ [](ret = "nil" => pc = "done")
    /\ [][/\ pc # "done"
          /\ err' # NilErr => decls' = decls]_vars

\* a failure in the middle of the wiring of the second endpoint
C13_Witness ==
    /\ ret = "nil"
    /\ err.msg = "failed to create integration"
    /\ Cardinality(Nodes("Method")) >= 2

\* the creation calls made while wiring an endpoint fail with these messages
WiringFailures ==
    {"failed to create method", "failed to create integration",
     "failed to create lambda permission", "failed to create OPTIONS method",
     "failed to create OPTIONS integration"}

\* the text holds the string p
Contains(text, p) ==
    \E i \in 1..(Len(text) + 1) :
        /\ i + Len(p) - 1 <= Len(text)
        /\ SubSeq(text, i, i + Len(p) - 1) = p

\* C15: the error returned when a creation call of an endpoint's wiring fails
\* names that endpoint's path and HTTP method.
C15_WiringErrorNamesEndpoint ==
    (ret = "nil" /\ err.msg \in WiringFailures) =>
        /\ Contains(err.detail, Endpoint.Path)
        /\ Contains(err.detail, <<Endpoint.Method>>)

\* C16: for an endpoint whose path is "/" or "", the walk declares no tree
\* node and adds nothing to the memo, and the endpoint's method, integration
\* and preflight pair sit on the REST API's root resource.
C16_BareRootOnRoot ==
    \A e \in 1..Len(config.Endpoints) :
        config.Endpoints[e].Path \in {PathRoot, PathEmpty} =>
            /\ Of(Nodes("Resource"), e) = {}
            /\ \A n \in Of(Nodes("Method") \cup Nodes("Integration"), e) :
                  decls[n].args.ResourceId = 0
            /\ \A p \in DOMAIN resources : decls[resources[p]].ep # e

\* C17: a usage plan is declared only after the stage; it references that
\* stage and the REST API the stage belongs to, and its quota limit and period
\* and throttle burst and rate are the configured ones.
C17_UsagePlanAfterStage ==
    \A u \in Nodes("UsagePlan") :
        /\ Nodes("Stage") = {decls[u].args.Stage}
        /\ decls[u].args.Stage < u
        /\ decls[u].args.Stage \in decls[u].refs
        /\ Nodes("RestApi") = {decls[u].args.ApiId}
        /\ decls[u].args.ApiId \in decls[decls[u].args.Stage].refs
        /\ decls[u].args.QuotaLimit = config.UsagePlanLimit.Limit
        /\ decls[u].args.QuotaPeriod = config.UsagePlanLimit.Period
        /\ decls[u].args.BurstLimit = config.UsagePlanLimit.BurstLimit
        /\ decls[u].args.RateLimit = config.UsagePlanLimit.RateLimit

C17_Witness ==
    /\ Nodes("UsagePlan") # {}
    /\ config.UsagePlanLimit.Limit = 1000
    /\ config.UsagePlanLimit.BurstLimit = 10

\* what two runs must agree on to have the same endpoint list: everything but
\* where the run has put the handler objects
Listed(E) ==
    [i \in 1..Len(E) |->
        [Path |-> E[i].Path, Method |-> E[i].Method, fn |-> E[i].LambdaFunc.fn,
         Authorization |-> E[i].Authorization,
         ApiKeyRequired |-> E[i].ApiKeyRequired]]

\* what the deployment must be sensitive to: path, method, authorization mode
Wired(E) ==
    [i \in 1..Len(E) |->
        [Path |-> E[i].Path, Method |-> E[i].Method,
         Authorization |-> E[i].Authorization]]

\* C11: the trigger value of a run equals that of the run before when the two
\* endpoint lists are the same, and differs from it when they differ in an
\* endpoint's path, method or authorization mode.
C11_Fingerprint ==
    \A d \in Nodes("Deployment") :
        prev.set =>
            /\ Listed(prev.Endpoints) = Listed(config.Endpoints)
                  => decls[d].args.redeployment = prev.trigger
            /\ Wired(prev.Endpoints) # Wired(config.Endpoints)
                  => decls[d].args.redeployment # prev.trigger

\* the node the two endpoints of the README example share
UsersNodes == {n \in Nodes("Resource") : NodePath(n) = << <<"users">> >>}

C18_NamesDistinct ==
    ~HasDuplicate(config.Endpoints) =>
        \A n1, n2 \in 1..Len(decls) :
            (n1 # n2 /\ decls[n1].kind = decls[n2].kind)
                => decls[n1].name # decls[n2].name

====
